---- MODULE Spec2Model ----
(***************************************************************************)
(* Model of txtytmp3app.py: the YT2MP3 Textual application.                *)
(*                                                                         *)
(* One UI thread runs the message handlers (on_input_changed,              *)
(* selected_stream, download_progress, on_button_pressed's dispatch); each *)
(* handler is one atomic action.  Every @work(thread=True) call starts a   *)
(* thread whose statements interleave with the handlers and with the other *)
(* threads; a thread is a record with a program counter.                   *)
(* @work(exclusive=True) cancels the earlier workers of the same widget:   *)
(* for a thread worker that only marks it cancelled (its result and its    *)
(* exception are dropped), the thread itself runs on.                      *)
(***************************************************************************)
EXTENDS Integers, Sequences, FiniteSets, TLC

\* ---------------------------------------------------------------- bounds
MaxLookups == 2
MaxDownloads == 2
MaxSelects == 1
\* find_video workers in a run that also starts on_button_pressed workers
MaxLookupsWithDownloads == 1
\* tree nodes highlighted, switch changes and "Set as default" presses in a run
MaxHighlights == 2
MaxToggles == 2
MaxWrites == 1
\* find_video and on_button_pressed workers in a run of the directory picker
MaxDirLookups == 1
MaxDirDownloads == 1

\* ---------------------------------------------------------------- inputs
\* The values the URL input can take: "" (cleared), a string pytube cannot
\* parse, and URLs of videos with two, one and no audio-only streams.
BadUrl == "bad"
Urls == {"", BadUrl, "u1", "u2", "u0"}

\* filesize of each audio-only stream of the video behind a URL, in
\* resolution order (video.streams.filter(only_audio=True)).
TrackSizes(u) ==
    CASE u = "u1" -> <<3, 1>>
      [] u = "u2" -> <<2>>
      [] OTHER -> <<>>

MaxTracks == Len(TrackSizes("u1"))

\* YouTube(url) raises RegexMatchError when no video id can be extracted.
Parses(u) == u \in {"u1", "u2", "u0"}

\* ------------------------------------------------------------ the state
VARIABLES
    url,            \* Input#url .value
    video,          \* YT2MP3.video: 0 is None, k the YouTube object built by lookup k
    results,        \* Markdown#results text
    options,        \* StreamSelect#tracks options (a sequence of streams)
    selValue,       \* StreamSelect#tracks .value
    tracksDisplay,  \* StreamSelect#tracks .display
    dlDisplay,      \* Donwload#download .display
    dprogDisplay,   \* ProgressBar#dprog .display
    dlStream,       \* Donwload.stream
    label,          \* Donwload.label
    total,          \* ProgressBar.total (-1 is None)
    progress,       \* ProgressBar.progress
    wrap,           \* per Stream object: how many logged_on_progress wrappers its on_progress holds
    lookups,        \* the find_video workers started so far
    downloads,      \* the on_button_pressed workers started so far
    appQ,           \* StreamSelect.Selected messages not yet handled by the App
    progQ,          \* Donwload.DownloadProgress messages not yet handled by the App
                    \* (posted to the Donwload widget and bubbled up: kept apart
                    \* from appQ, only messages of one sender stay in order)
    files,          \* streams for which a file has been opened for writing
    nSelects,       \* user selections made in the Select widget
    crashed,        \* the app has exited on a worker's exception
    cfgFile,        \* the document in .cfg.yaml
    defaultLoc,     \* DonwloadLocation.default_loc
    selectedPath,   \* DonwloadLocation.selected_path
    banner,         \* Static#locationbanner: the location it shows
    location,       \* Donwload.location
    switchValue,    \* Switch .value
    treeVisible,    \* FilteredDirectoryTree#dirtree .visible
    switchLabel,    \* Static#s_exp_hide text
    pathQ,          \* SelectedPath messages not yet handled by the DonwloadLocation
    appPathQ,       \* SelectedPath messages bubbled up, not yet handled by the App
    writers,        \* the write_default_loc workers started so far
    nHighlights,    \* tree nodes highlighted by the user
    nToggles        \* switch changes made by the user

dirVars == <<cfgFile, defaultLoc, selectedPath, banner, location, switchValue,
             treeVisible, switchLabel, pathQ, appPathQ, writers, nHighlights, nToggles>>

vars == <<url, video, results, options, selValue, tracksDisplay, dlDisplay,
          dprogDisplay, dlStream, label, total, progress, wrap, lookups,
          downloads, appQ, progQ, files, nSelects, crashed, dirVars>>

uiVars == <<url, results, options, selValue, tracksDisplay, dlDisplay, dprogDisplay>>
dlVars == <<dlStream, label, total, progress>>

NoVideo == 0
NoStream == <<0, 0>>
NoTotal == -1

\* A Stream object: track i of the YouTube object built by lookup k.
Streams == (1..MaxLookups) \X (1..MaxTracks)

TracksOf(k) == [i \in 1..Len(TrackSizes(lookups[k].url)) |-> <<k, i>>]

\* Stream.filesize
Filesize(s) == TrackSizes(lookups[s[1]].url)[s[2]]

\* make_word_markdown: the summary names the video it is built from.
make_word_markdown(v) == <<"summary", lookups[v].url>>

\* ---------------------------------------------- paths and the config
\* A location is a str (from the config document or Path.home().as_posix())
\* or a Path (a tree node's data.path); None is Donwload.location's default.
Str(d) == [kind |-> "str", p |-> d]
PathOf(d) == [kind |-> "Path", p |-> d]
NoPath == [kind |-> "None", p |-> ""]

HomeDir == "home"
\* directories shown by the tree rooted at Path.home()
TreeDirs == {HomeDir, "d1"}

\* The config document: the key download_loc and the keys besides it.
Absent == "absent"
NoFile == [exists |-> FALSE, download_loc |-> Absent, other |-> Absent]
Doc(loc, other) == [exists |-> TRUE, download_loc |-> loc, other |-> other]
CfgFiles == {NoFile, Doc("d2", "x"), Doc(Absent, "x")}

\* parse_config: {"download_loc": home} updated with the file's document.
parse_config(f) ==
    [download_loc |-> IF f.exists /\ f.download_loc # Absent THEN f.download_loc ELSE HomeDir,
     other |-> IF f.exists THEN f.other ELSE Absent]

\* YT2MP3 and its widgets after compose and on_mount, but for the picker.
AppInit ==
    /\ url = ""
    /\ video = NoVideo
    /\ results = ""
    /\ options = <<>>
    /\ selValue = NoStream
    /\ tracksDisplay = FALSE
    /\ dlDisplay = TRUE
    /\ dprogDisplay = FALSE
    /\ dlStream = NoStream
    /\ label = "Download"
    /\ total = NoTotal
    /\ progress = 0
    /\ wrap = [s \in Streams |-> 0]
    /\ lookups = <<>>
    /\ downloads = <<>>
    /\ appQ = <<>>
    /\ progQ = <<>>
    /\ files = {}
    /\ nSelects = 0
    /\ crashed = FALSE

\* DonwloadLocation.__init__ with default_loc = self.cfgs["download_loc"].
DirInit(f) ==
    /\ cfgFile = f
    /\ defaultLoc = Str(parse_config(f).download_loc)
    /\ selectedPath = Str(parse_config(f).download_loc)
    /\ banner = parse_config(f).download_loc
    /\ location = NoPath
    /\ switchValue = TRUE
    /\ treeVisible = TRUE
    /\ switchLabel = "on:      "
    /\ pathQ = <<>>
    /\ appPathQ = <<>>
    /\ writers = <<>>
    /\ nHighlights = 0
    /\ nToggles = 0

\* Startup without a config file.
Init == AppInit /\ DirInit(NoFile)

\* Startup with any of the config files.
InitDir == AppInit /\ \E f \in CfgFiles : DirInit(f)

\* ------------------------------------------------------ the UI thread
\* @work(exclusive=True): the earlier workers of the widget are cancelled.
CancelAll(ws) == [k \in 1..Len(ws) |-> [ws[k] EXCEPT !.cancelled = TRUE]]

\* on_input_changed (and, for a non-empty value, the start of find_video).
on_input_changed(v) ==
    /\ ~crashed
    /\ v # url
    /\ url' = v
    /\ IF v # ""
       THEN /\ Len(lookups) < MaxLookups
            /\ downloads # <<>> => Len(lookups) < MaxLookupsWithDownloads
            /\ results' = "Searching..."
            /\ lookups' = Append(CancelAll(lookups),
                   [url |-> v, pc |-> "ctor", cancelled |-> FALSE,
                    tracks |-> <<>>, markdown |-> ""])
       ELSE /\ results' = ""
            /\ UNCHANGED lookups
    /\ UNCHANGED <<video, options, selValue, tracksDisplay, dlDisplay, dprogDisplay,
                   dlStream, label, total, progress, wrap, downloads, appQ, progQ,
                   files, nSelects, crashed>>
    /\ UNCHANGED dirVars

\* ProgressBar._validate_total
ValidateTotal(t) == IF t < 0 THEN 0 ELSE t

\* ProgressBar._validate_progress: clamp(progress, 0, total) once a total is set.
ValidateProgress(p, t) ==
    IF t = NoTotal THEN p
    ELSE IF p < 0 THEN 0 ELSE IF p > t THEN t ELSE p

\* selected_stream without line 209: the progress is not reset.
selected_stream_no_reset ==
    /\ ~crashed
    /\ appQ # <<>>
    /\ dlStream' = Head(appQ)
    /\ label' = "Download"
    /\ total' = ValidateTotal(Filesize(Head(appQ)))
    /\ appQ' = Tail(appQ)
    /\ UNCHANGED <<uiVars, video, progress, wrap, lookups, downloads, progQ, files,
                   nSelects, crashed>>
    /\ UNCHANGED dirVars

\* selected_stream without line 208: the total is not set.
selected_stream_keep_total ==
    /\ ~crashed
    /\ appQ # <<>>
    /\ dlStream' = Head(appQ)
    /\ label' = "Download"
    /\ progress' = ValidateProgress(0, total)
    /\ appQ' = Tail(appQ)
    /\ UNCHANGED <<uiVars, video, total, wrap, lookups, downloads, progQ, files,
                   nSelects, crashed>>
    /\ UNCHANGED dirVars

\* selected_stream, handling the oldest StreamSelect.Selected message.
selected_stream ==
    /\ ~crashed
    /\ appQ # <<>>
    /\ LET s == Head(appQ)
           t == ValidateTotal(Filesize(s))
       IN /\ dlStream' = s
          /\ label' = "Download"
          /\ total' = t
          /\ progress' = ValidateProgress(0, t)
    /\ appQ' = Tail(appQ)
    /\ UNCHANGED <<uiVars, video, wrap, lookups, downloads, progQ, files, nSelects, crashed>>
    /\ UNCHANGED dirVars

\* line 215 without the subtraction of dprog.progress.
Advance_no_baseline(t, remaining, p) == t - remaining

\* The delta download_progress hands to ProgressBar.advance.
Advance(t, remaining, p) == (t - remaining) - p

\* ProgressBar.advance: progress += advance, through the validator.
AdvanceProgress(p, d, t) == ValidateProgress(p + d, t)

\* download_progress, handling the oldest Donwload.DownloadProgress message.
download_progress ==
    /\ ~crashed
    /\ progQ # <<>>
    /\ IF total = NoTotal
       THEN /\ crashed' = TRUE
            /\ UNCHANGED progress
       ELSE /\ progress' = AdvanceProgress(progress, Advance(total, Head(progQ), progress), total)
            /\ UNCHANGED crashed
    /\ progQ' = Tail(progQ)
    /\ UNCHANGED <<uiVars, video, dlStream, label, total, wrap, lookups, downloads,
                   appQ, files, nSelects>>
    /\ UNCHANGED dirVars

\* The user picks another entry of the Select: Select.Changed, select_changed.
select_changed(i) ==
    /\ ~crashed
    /\ tracksDisplay
    /\ nSelects < MaxSelects
    /\ i \in 1..Len(options)
    /\ options[i] # selValue
    /\ selValue' = options[i]
    /\ appQ' = Append(appQ, options[i])
    /\ nSelects' = nSelects + 1
    /\ UNCHANGED <<url, video, results, options, tracksDisplay, dlDisplay, dprogDisplay,
                   dlVars, wrap, lookups, downloads, progQ, files, crashed>>
    /\ UNCHANGED dirVars

\* Button.Pressed on the Donwload button: the start of an on_button_pressed worker.
on_button_pressed ==
    /\ ~crashed
    /\ dlDisplay
    /\ Len(downloads) < MaxDownloads
    /\ Len(lookups) <= MaxLookupsWithDownloads
    /\ downloads' = Append(CancelAll(downloads),
           [pc |-> "test", trigger |-> dlStream, stream |-> NoStream,
            dest |-> NoPath, remaining |-> 0, cancelled |-> FALSE])
    /\ UNCHANGED <<uiVars, video, dlVars, wrap, lookups, appQ, progQ, files, nSelects, crashed>>
    /\ UNCHANGED dirVars

\* ------------------------------------------------- find_video threads
LookupAt(k, pc) == ~crashed /\ k \in 1..Len(lookups) /\ lookups[k].pc = pc

\* An exception leaves the thread; the app exits unless the worker was cancelled.
LookupRaises(k) ==
    /\ lookups' = [lookups EXCEPT ![k].pc = "error", ![k].tracks = <<>>]
    /\ crashed' = ~lookups[k].cancelled

\* line 230-232
find_video_ctor(k) ==
    /\ LookupAt(k, "ctor")
    /\ video' = IF Parses(lookups[k].url) THEN k ELSE NoVideo
    /\ lookups' = [lookups EXCEPT ![k].pc = "test"]
    /\ UNCHANGED <<uiVars, dlVars, wrap, downloads, appQ, progQ, files, nSelects, crashed>>
    /\ UNCHANGED dirVars

\* line 233
find_video_test(k) ==
    /\ LookupAt(k, "test")
    /\ lookups' = [lookups EXCEPT ![k].pc = IF video # NoVideo THEN "tracks" ELSE "hide"]
    /\ UNCHANGED <<uiVars, video, dlVars, wrap, downloads, appQ, progQ, files, nSelects, crashed>>
    /\ UNCHANGED dirVars

\* line 246
fill_audio_tracks_filter(k) ==
    /\ LookupAt(k, "tracks")
    /\ IF video = NoVideo
       THEN LookupRaises(k)
       ELSE /\ lookups' = [lookups EXCEPT ![k].pc = "setopts", ![k].tracks = TracksOf(video)]
            /\ UNCHANGED crashed
    /\ UNCHANGED <<uiVars, video, dlVars, wrap, downloads, appQ, progQ, files, nSelects>>
    /\ UNCHANGED dirVars

\* line 248-249: Select.set_options replaces the options and blanks the value.
fill_audio_tracks_set_options(k) ==
    /\ LookupAt(k, "setopts")
    /\ options' = lookups[k].tracks
    /\ selValue' = NoStream
    /\ lookups' = [lookups EXCEPT ![k].pc = "setval"]
    /\ UNCHANGED <<url, results, tracksDisplay, dlDisplay, dprogDisplay, video, dlVars,
                   wrap, downloads, appQ, progQ, files, nSelects, crashed>>
    /\ UNCHANGED dirVars

\* line 250: tracks[0] raises IndexError on an empty list.
fill_audio_tracks_value(k) ==
    /\ LookupAt(k, "setval")
    /\ IF lookups[k].tracks = <<>>
       THEN LookupRaises(k) /\ UNCHANGED selValue
       ELSE /\ selValue' = lookups[k].tracks[1]
            /\ lookups' = [lookups EXCEPT ![k].pc = "post"]
            /\ UNCHANGED crashed
    /\ UNCHANGED <<url, results, options, tracksDisplay, dlDisplay, dprogDisplay, video,
                   dlVars, wrap, downloads, appQ, progQ, files, nSelects>>
    /\ UNCHANGED dirVars

\* line 251
fill_audio_tracks_post(k) ==
    /\ LookupAt(k, "post")
    /\ appQ' = Append(appQ, lookups[k].tracks[1])
    /\ lookups' = [lookups EXCEPT ![k].pc = "mk"]
    /\ UNCHANGED <<uiVars, video, dlVars, wrap, downloads, progQ, files, nSelects, crashed>>
    /\ UNCHANGED dirVars

\* line 235, 253-260: reads self.video again.
find_video_markdown(k) ==
    /\ LookupAt(k, "mk")
    /\ IF video = NoVideo
       THEN LookupRaises(k)
       ELSE /\ lookups' = [lookups EXCEPT ![k].pc = "show",
                                          ![k].markdown = make_word_markdown(video)]
            /\ UNCHANGED crashed
    /\ UNCHANGED <<uiVars, video, dlVars, wrap, downloads, appQ, progQ, files, nSelects>>
    /\ UNCHANGED dirVars

\* line 236-238
find_video_show(k) ==
    /\ LookupAt(k, "show")
    /\ dlDisplay' = TRUE
    /\ tracksDisplay' = TRUE
    /\ dprogDisplay' = TRUE
    /\ lookups' = [lookups EXCEPT ![k].pc = "update"]
    /\ UNCHANGED <<url, results, options, selValue, video, dlVars, wrap, downloads,
                   appQ, progQ, files, nSelects, crashed>>
    /\ UNCHANGED dirVars

\* line 240-242 with the picker's display set as in the success branch.
find_video_hide_shows_tracks(k) ==
    /\ LookupAt(k, "hide")
    /\ dlDisplay' = FALSE
    /\ tracksDisplay' = TRUE
    /\ lookups' = [lookups EXCEPT ![k].pc = "update", ![k].markdown = ""]
    /\ UNCHANGED <<url, results, options, selValue, dprogDisplay, video, dlVars, wrap,
                   downloads, appQ, progQ, files, nSelects, crashed>>
    /\ UNCHANGED dirVars

\* line 240-242
find_video_hide(k) ==
    /\ LookupAt(k, "hide")
    /\ dlDisplay' = FALSE
    /\ tracksDisplay' = FALSE
    /\ lookups' = [lookups EXCEPT ![k].pc = "update", ![k].markdown = ""]
    /\ UNCHANGED <<url, results, options, selValue, dprogDisplay, video, dlVars, wrap,
                   downloads, appQ, progQ, files, nSelects, crashed>>
    /\ UNCHANGED dirVars

\* line 243
find_video_update(k) ==
    /\ LookupAt(k, "update")
    /\ results' = lookups[k].markdown
    /\ lookups' = [lookups EXCEPT ![k].pc = "done", ![k].tracks = <<>>, ![k].markdown = ""]
    /\ UNCHANGED <<url, options, selValue, tracksDisplay, dlDisplay, dprogDisplay, video,
                   dlVars, wrap, downloads, appQ, progQ, files, nSelects, crashed>>
    /\ UNCHANGED dirVars

\* ------------------------------------------ on_button_pressed threads
DownloadAt(d, pc) == ~crashed /\ d \in 1..Len(downloads) /\ downloads[d].pc = pc

\* line 47-56 with the branches' labels confused: no stream shows "Done".
on_button_pressed_test_done(d) ==
    /\ DownloadAt(d, "test")
    /\ IF dlStream # NoStream
       THEN /\ downloads' = [downloads EXCEPT ![d].pc = "wrap", ![d].trigger = NoStream]
            /\ UNCHANGED label
       ELSE /\ label' = "Done"
            /\ downloads' = [downloads EXCEPT ![d].pc = "done", ![d].trigger = NoStream]
    /\ UNCHANGED <<uiVars, video, dlStream, total, progress, wrap, lookups, appQ, progQ,
                   files, nSelects, crashed>>
    /\ UNCHANGED dirVars

\* line 47, 55-56: the thread, not the press, tests self.stream.
on_button_pressed_test(d) ==
    /\ DownloadAt(d, "test")
    /\ IF dlStream # NoStream
       THEN /\ downloads' = [downloads EXCEPT ![d].pc = "wrap", ![d].trigger = NoStream]
            /\ UNCHANGED label
       ELSE /\ label' = "Error. Click to retry"
            /\ downloads' = [downloads EXCEPT ![d].pc = "done", ![d].trigger = NoStream]
    /\ UNCHANGED <<uiVars, video, dlStream, total, progress, wrap, lookups, appQ, progQ,
                   files, nSelects, crashed>>
    /\ UNCHANGED dirVars

\* line 48-51: self.stream.on_progress is wrapped once more, whatever it held.
on_button_pressed_wrap(d) ==
    /\ DownloadAt(d, "wrap")
    /\ wrap' = [wrap EXCEPT ![dlStream] = @ + 1]
    /\ downloads' = [downloads EXCEPT ![d].pc = "label"]
    /\ UNCHANGED <<uiVars, video, dlVars, lookups, appQ, progQ, files, nSelects, crashed>>
    /\ UNCHANGED dirVars

\* line 52
on_button_pressed_label(d) ==
    /\ DownloadAt(d, "label")
    /\ label' = "Downloading..."
    /\ downloads' = [downloads EXCEPT ![d].pc = "call"]
    /\ UNCHANGED <<uiVars, video, dlStream, total, progress, wrap, lookups, appQ, progQ,
                   files, nSelects, crashed>>
    /\ UNCHANGED dirVars

\* line 53, entry of Stream.download(output_path=self.location,
\* skip_existing=False): the file is opened for writing and bytes_remaining
\* starts at the stream's filesize.
stream_download_begin(d) ==
    /\ DownloadAt(d, "call")
    /\ downloads' = [downloads EXCEPT ![d].pc = "transfer", ![d].stream = dlStream,
                                      ![d].dest = location,
                                      ![d].remaining = Filesize(dlStream)]
    /\ files' = files \cup {dlStream}
    /\ UNCHANGED <<uiVars, video, dlVars, wrap, lookups, appQ, progQ, nSelects, crashed>>
    /\ UNCHANGED dirVars

\* logged_on_progress: every wrapper layer on the stream posts one
\* DownloadProgress(remaining) before calling the layer below.
logged_on_progress(s, remaining) == [i \in 1..wrap[s] |-> remaining]

\* line 53, one chunk of Stream.download: bytes_remaining -= len(chunk), then
\* self.on_progress(chunk, fh, bytes_remaining).
stream_download_chunk(d, n) ==
    /\ DownloadAt(d, "transfer")
    /\ n \in 1..downloads[d].remaining
    /\ LET r == downloads[d].remaining - n
       IN /\ downloads' = [downloads EXCEPT ![d].remaining = r]
          /\ progQ' = progQ \o logged_on_progress(downloads[d].stream, r)
    /\ UNCHANGED <<uiVars, video, dlVars, wrap, lookups, appQ, files, nSelects, crashed>>
    /\ UNCHANGED dirVars

\* line 53 returns, line 54
on_button_pressed_done(d) ==
    /\ DownloadAt(d, "transfer")
    /\ downloads[d].remaining = 0
    /\ label' = "Done"
    /\ downloads' = [downloads EXCEPT ![d].pc = "done"]
    /\ UNCHANGED <<uiVars, video, dlStream, total, progress, wrap, lookups, appQ, progQ,
                   files, nSelects, crashed>>
    /\ UNCHANGED dirVars

\* ------------------------------------------------------ specification
LookupIds == 1..MaxLookups
DownloadIds == 1..MaxDownloads
ChunkSizes == 1..3

LookupStep ==
    \E k \in LookupIds :
        \/ find_video_ctor(k) \/ find_video_test(k) \/ fill_audio_tracks_filter(k)
        \/ fill_audio_tracks_set_options(k) \/ fill_audio_tracks_value(k)
        \/ fill_audio_tracks_post(k) \/ find_video_markdown(k) \/ find_video_show(k)
        \/ find_video_hide(k) \/ find_video_update(k)

DownloadStep ==
    \E d \in DownloadIds :
        \/ on_button_pressed_test(d) \/ on_button_pressed_wrap(d)
        \/ on_button_pressed_label(d) \/ stream_download_begin(d)
        \/ (\E n \in ChunkSizes : stream_download_chunk(d, n))
        \/ on_button_pressed_done(d)

Next ==
    \/ \E v \in Urls : on_input_changed(v)
    \/ selected_stream
    \/ download_progress
    \/ \E i \in 1..MaxTracks : select_changed(i)
    \/ on_button_pressed
    \/ \E k \in LookupIds : find_video_ctor(k)
    \/ \E k \in LookupIds : find_video_test(k)
    \/ \E k \in LookupIds : fill_audio_tracks_filter(k)
    \/ \E k \in LookupIds : fill_audio_tracks_set_options(k)
    \/ \E k \in LookupIds : fill_audio_tracks_value(k)
    \/ \E k \in LookupIds : fill_audio_tracks_post(k)
    \/ \E k \in LookupIds : find_video_markdown(k)
    \/ \E k \in LookupIds : find_video_show(k)
    \/ \E k \in LookupIds : find_video_hide(k)
    \/ \E k \in LookupIds : find_video_update(k)
    \/ \E d \in DownloadIds : on_button_pressed_test(d)
    \/ \E d \in DownloadIds : on_button_pressed_wrap(d)
    \/ \E d \in DownloadIds : on_button_pressed_label(d)
    \/ \E d \in DownloadIds : stream_download_begin(d)
    \/ \E d \in DownloadIds, n \in ChunkSizes : stream_download_chunk(d, n)
    \/ \E d \in DownloadIds : on_button_pressed_done(d)

Spec == Init /\ [][Next]_vars

\* ------------------------------------------------ the directory picker
appVars == <<url, video, results, options, selValue, tracksDisplay, dlDisplay,
             dprogDisplay, dlStream, label, total, progress, wrap, lookups,
             downloads, appQ, progQ, files, nSelects>>

\* changed_root: the user highlights a node of the tree, which is on screen;
\* the node's Path is posted as a SelectedPath message.
changed_root(p) ==
    /\ ~crashed
    /\ treeVisible
    /\ nHighlights < MaxHighlights
    /\ pathQ' = Append(pathQ, PathOf(p))
    /\ nHighlights' = nHighlights + 1
    /\ UNCHANGED <<appVars, crashed, cfgFile, defaultLoc, selectedPath, banner, location,
                   switchValue, treeVisible, switchLabel, appPathQ, writers, nToggles>>

\* DonwloadLocation.change_download_location; the message then bubbles to the App.
picker_change_download_location ==
    /\ ~crashed
    /\ pathQ # <<>>
    /\ selectedPath' = Head(pathQ)
    /\ banner' = Head(pathQ).p
    /\ pathQ' = Tail(pathQ)
    /\ appPathQ' = Append(appPathQ, Head(pathQ))
    /\ UNCHANGED <<appVars, crashed, cfgFile, defaultLoc, location, switchValue,
                   treeVisible, switchLabel, writers, nHighlights, nToggles>>

\* YT2MP3.change_download_location.
change_download_location ==
    /\ ~crashed
    /\ appPathQ # <<>>
    /\ location' = Head(appPathQ)
    /\ appPathQ' = Tail(appPathQ)
    /\ UNCHANGED <<appVars, crashed, cfgFile, defaultLoc, selectedPath, banner,
                   switchValue, treeVisible, switchLabel, pathQ, writers,
                   nHighlights, nToggles>>

\* toggle_exp_hide with an else branch that shows the tree as well.
toggle_exp_hide_always_visible ==
    /\ ~crashed
    /\ nToggles < MaxToggles
    /\ switchValue' = ~switchValue
    /\ switchLabel' = IF switchValue' THEN "Hide: " ELSE "Explore: "
    /\ treeVisible' = TRUE
    /\ nToggles' = nToggles + 1
    /\ UNCHANGED <<appVars, crashed, cfgFile, defaultLoc, selectedPath, banner, location,
                   pathQ, appPathQ, writers, nHighlights>>

\* The user flips the switch; toggle_exp_hide handles its Changed event.
toggle_exp_hide ==
    /\ ~crashed
    /\ nToggles < MaxToggles
    /\ switchValue' = ~switchValue
    /\ switchLabel' = IF switchValue' THEN "Hide: " ELSE "Explore: "
    /\ treeVisible' = switchValue'
    /\ nToggles' = nToggles + 1
    /\ UNCHANGED <<appVars, crashed, cfgFile, defaultLoc, selectedPath, banner, location,
                   pathQ, appPathQ, writers, nHighlights>>

\* set_default_loc: "Set as default" starts a write_default_loc worker on
\* the current selected_path.
set_default_loc ==
    /\ ~crashed
    /\ Len(writers) < MaxWrites
    /\ writers' = Append(CancelAll(writers),
           [pc |-> "read", new_path |-> selectedPath, cfgs |-> NoFile, cancelled |-> FALSE])
    /\ UNCHANGED <<appVars, crashed, cfgFile, defaultLoc, selectedPath, banner, location,
                   switchValue, treeVisible, switchLabel, pathQ, appPathQ,
                   nHighlights, nToggles>>

WriterAt(w, pc) == ~crashed /\ w \in 1..Len(writers) /\ writers[w].pc = pc

\* lines 116-119: cfgs = {} or the document of the file.
write_default_loc_read(w) ==
    /\ WriterAt(w, "read")
    /\ writers' = [writers EXCEPT ![w].pc = "write",
                                  ![w].cfgs = [cfgFile EXCEPT !.exists = TRUE]]
    /\ UNCHANGED <<appVars, crashed, cfgFile, defaultLoc, selectedPath, banner, location,
                   switchValue, treeVisible, switchLabel, pathQ, appPathQ,
                   nHighlights, nToggles>>

\* lines 120-121: new_path.as_posix() exists on a Path, and is an
\* AttributeError on a str; the document is written with the new download_loc.
write_default_loc_write(w) ==
    /\ WriterAt(w, "write")
    /\ IF writers[w].new_path.kind = "Path"
       THEN /\ cfgFile' = [writers[w].cfgs EXCEPT !.download_loc = writers[w].new_path.p]
            /\ writers' = [writers EXCEPT ![w].pc = "done", ![w].cfgs = NoFile]
            /\ UNCHANGED crashed
       ELSE /\ writers' = [writers EXCEPT ![w].pc = "error", ![w].cfgs = NoFile]
            /\ crashed' = ~writers[w].cancelled
            /\ UNCHANGED cfgFile
    /\ UNCHANGED <<appVars, defaultLoc, selectedPath, banner, location,
                   switchValue, treeVisible, switchLabel, pathQ, appPathQ,
                   nHighlights, nToggles>>

WriterIds == 1..MaxWrites

\* the URLs typed in a run of the picker: a video with one audio stream,
\* and a text that is no video's URL
DirUrls == {"u2", BadUrl}

\* The picker's own steps.
DirNext ==
    \/ \E p \in TreeDirs : changed_root(p)
    \/ picker_change_download_location
    \/ change_download_location
    \/ toggle_exp_hide
    \/ set_default_loc
    \/ \E w \in WriterIds : write_default_loc_read(w)
    \/ \E w \in WriterIds : write_default_loc_write(w)

\* The picker next to one lookup and one download of the first stream offered.
NextDir ==
    \/ DirNext
    \/ \E v \in DirUrls : on_input_changed(v) /\ Len(lookups') <= MaxDirLookups
    \/ selected_stream
    \/ download_progress
    \/ on_button_pressed /\ Len(downloads') <= MaxDirDownloads
    \/ LookupStep
    \/ DownloadStep

SpecDir == InitDir /\ [][NextDir]_vars

\* ---------------------------------------------------------- helpers
InFlight == {d \in 1..Len(downloads) : downloads[d].pc = "transfer"}

LookupsSettled ==
    /\ ~crashed
    /\ \A k \in 1..Len(lookups) : lookups[k].pc = "done"
    /\ appQ = <<>>

Settled ==
    /\ LookupsSettled
    /\ \A d \in 1..Len(downloads) : downloads[d].pc = "done"
    /\ progQ = <<>>

Latest == Len(lookups)

\* What the user can see of the lookup's outcome.
ViewNow ==
    [video |-> video, results |-> results, tracks |-> tracksDisplay,
     download |-> dlDisplay, dprog |-> dprogDisplay]

\* on_input_changed with value "" (line 186, 189-191), as a function of the view.
AfterEmptyUrl(w) == [w EXCEPT !.results = ""]

\* find_video for a URL that raises RegexMatchError, run alone to its end
\* (line 231-232, 239-243), as a function of the view.
AfterFailedLookup(w) ==
    [w EXCEPT !.video = NoVideo, !.download = FALSE, !.tracks = FALSE, !.results = ""]

\* ----------------------------------------------------------- claims

\* C1: at most one transfer (stream.download call) of the Download control is
\* in flight at any time; a press during a transfer starts no second one.
C1_AtMostOneTransfer == Cardinality(InFlight) <= 1

\* C2: once two or more lookups have all finished, the video, the results
\* text, the stream options and the selected stream are those of the lookup
\* for the latest URL, never those of a superseded lookup.
C2_LatestLookupWins ==
    (LookupsSettled /\ Len(lookups) >= 2 /\ TrackSizes(lookups[Latest].url) # <<>>) =>
        /\ video = Latest
        /\ results = make_word_markdown(Latest)
        /\ options = TracksOf(Latest)
        /\ (nSelects = 0 => dlStream = <<Latest, 1>>)

\* C3: in every reachable state 0 <= advanced <= total on the progress bar.
C3_ProgressWithinTotal ==
    /\ progress >= 0
    /\ total # NoTotal => progress <= total

\* C3 witness: a stream other than the one being transferred is selected and
\* the bar has been advanced by the transfer's progress events.
C3_Witness ==
    /\ \E d \in InFlight : downloads[d].stream # dlStream
    /\ progress > 0
    /\ progress = total

\* C4: for progress events with remaining <= total, every delta handed to
\* the bar's advance is non-negative.
C4_DeltasNonNegative ==
    [][(download_progress /\ total # NoTotal /\ Head(progQ) <= total)
        => Advance(total, Head(progQ), progress) >= 0]_vars

\* C5 as claimed: handling a progress event carrying remaining leaves the bar
\* with advanced = total - remaining.
C5_AdvancedIsTotalMinusRemaining ==
    [][(download_progress /\ total # NoTotal)
        => progress' = total - Head(progQ)]_vars

\* C5 amended: handling a progress event carrying remaining leaves the total
\* alone and the bar with advanced = total - remaining when remaining <= total,
\* and with advanced = 0 when remaining > total.
C5_AdvancedIsClampedTarget ==
    [][(download_progress /\ total # NoTotal)
        => /\ total' = total
           /\ progress' = IF Head(progQ) <= total THEN total - Head(progQ) ELSE 0]_vars

\* C5 witness: in the middle of a transfer of the selected stream, with every
\* progress event handled, the bar stands at total - remaining.
C5_Witness ==
    \E d \in InFlight :
        /\ downloads[d].stream = dlStream
        /\ progQ = <<>>
        /\ downloads[d].remaining > 0
        /\ downloads[d].remaining < total
        /\ progress = total - downloads[d].remaining

\* C6: handling a stream-selected event sets the Download control's stream to
\* the selected variant, the bar's total to its size and the bar's advanced
\* value to 0, whatever the state before.
C6_SelectResets ==
    [][selected_stream
        => /\ dlStream' = Head(appQ)
           /\ total' = Filesize(Head(appQ))
           /\ progress' = 0]_vars

\* C6 witness: a stream was selected during a transfer that had already
\* advanced the bar; the bar is back at 0 of the new stream's size.
C6_Witness ==
    /\ \E d \in InFlight : downloads[d].remaining < Filesize(downloads[d].stream)
                             /\ downloads[d].stream # dlStream
    /\ label = "Download"
    /\ progress = 0
    /\ total = Filesize(dlStream)

\* C7 as claimed: a download triggered while the control's stream is null sets
\* the label to "Error. Click to retry", transfers nothing and leaves the
\* control displayed.
C7_NullAtTriggerIsError ==
    [][\A d \in 1..Len(downloads) :
        (downloads[d].trigger = NoStream /\ downloads[d].pc = "test"
            /\ downloads'[d].pc # "test")
        => /\ label' = "Error. Click to retry"
           /\ downloads'[d].pc = "done"
           /\ files' = files
           /\ dlDisplay' = dlDisplay]_vars

\* C7 amended: a download whose worker finds the control's stream null when it
\* tests it sets the label to "Error. Click to retry", transfers nothing and
\* leaves the control displayed.
C7_NullAtTestIsError ==
    [][\A d \in 1..Len(downloads) :
        (dlStream = NoStream /\ downloads[d].pc = "test" /\ downloads'[d].pc # "test")
        => /\ label' = "Error. Click to retry"
           /\ downloads'[d].pc = "done"
           /\ downloads'[d].stream = NoStream
           /\ files' = files
           /\ dlDisplay' = dlDisplay]_vars

\* C7 witness: a worker has ended on the null stream, the label asks for a
\* retry, nothing was written and the control is still displayed.
C7_Witness ==
    /\ \E d \in 1..Len(downloads) : downloads[d].pc = "done" /\ downloads[d].stream = NoStream
    /\ label = "Error. Click to retry"
    /\ files = {}
    /\ dlDisplay

\* C8: the control never shows "Done" while a transfer for it is in flight.
C8_NoDoneWhileInFlight == label = "Done" => InFlight = {}

\* C9: whenever the URL input becomes the empty string the app ends with the
\* video null, blank results text, and the Stream Picker and the Download
\* control hidden.
C9_EmptyUrlHidesAll ==
    [][on_input_changed("")
        => /\ video' = NoVideo
           /\ results' = ""
           /\ ~tracksDisplay'
           /\ ~dlDisplay']_vars

\* C10: from any settled state with a non-empty URL, a lookup that fails with
\* the parse error ends in the same view (video, results text, visibility of
\* picker, download control and progress bar) as clearing the URL does.
C10_FailedLookupLikeEmptyUrl ==
    (Settled /\ url # "") => AfterFailedLookup(ViewNow) = AfterEmptyUrl(ViewNow)

\* YouTube(url) has returned in worker k: its resolution succeeded.
Resolved(k) == Parses(lookups[k].url) /\ lookups[k].pc # "ctor"

\* Worker k has left find_video, by its last line or by an exception.
LookupEnded(k) == lookups[k].pc \in {"done", "error"}

\* A step of a find_video worker thread.
\* A step of an on_button_pressed worker thread.
\* C11: once the lookups have ended and the latest URL resolved to a video
\* with at least one audio-only stream, with no selection and no download
\* made by the user, the first stream is the Download control's stream, the
\* bar stands at 0 of that stream's size, and picker, bar and download
\* control are displayed.
C11_FirstStreamAutoSelected ==
    (LookupsSettled /\ Len(lookups) >= 1 /\ TrackSizes(lookups[Latest].url) # <<>>
        /\ nSelects = 0 /\ downloads = <<>>) =>
        /\ dlStream = <<Latest, 1>>
        /\ total = Filesize(<<Latest, 1>>)
        /\ progress = 0
        /\ tracksDisplay /\ dprogDisplay /\ dlDisplay

\* C12: when a lookup that resolved a video without audio-only streams ends
\* (it leaves fill_audio_tracks with the empty list), the Download control's
\* stream is null and picker, bar and download control are hidden.
C12_NoStreamsHidesAll ==
    [][\A k \in LookupIds :
        (fill_audio_tracks_value(k) /\ lookups[k].tracks = <<>>) =>
            /\ dlStream' = NoStream
            /\ ~tracksDisplay' /\ ~dprogDisplay' /\ ~dlDisplay']_vars

\* C13: no step of a worker thread writes application or widget state (the
\* video field, a label, a display flag, the options, the value, the results
\* text); results reach the UI thread as posted messages only.
C13_WorkersOnlyPost ==
    [][(LookupStep \/ DownloadStep) =>
        UNCHANGED <<video, results, options, selValue, tracksDisplay, dlDisplay,
                    dprogDisplay, label>>]_vars

\* C16: until the first lookup has resolved its URL, the Stream Picker and
\* the progress bar are hidden.
C16_HiddenUntilResolved ==
    (\A k \in 1..Len(lookups) : ~Resolved(k)) => (~tracksDisplay /\ ~dprogDisplay)

\* C16 witness: a failed lookup has ended and a download was triggered (the
\* label asks for a retry); picker and bar are still hidden.
C16_Witness ==
    /\ \E k \in 1..Len(lookups) : lookups[k].url = BadUrl /\ lookups[k].pc = "done"
    /\ \A k \in 1..Len(lookups) : ~Resolved(k)
    /\ label = "Error. Click to retry"
    /\ ~tracksDisplay /\ ~dprogDisplay

\* C18: each progress callback of a transfer posts exactly one
\* DownloadProgress message, carrying the callback's bytes remaining.
C18_OneEventPerCallback ==
    [][\A d \in DownloadIds : \A n \in ChunkSizes :
        stream_download_chunk(d, n) => progQ' = Append(progQ, downloads[d].remaining - n)]_vars

\* C19: once every lookup has ended, with the URL still the one of the latest
\* lookup, the results text is no longer "Searching...".
C19_SearchingIsReplaced ==
    (Len(lookups) >= 1 /\ url = lookups[Latest].url
        /\ \A k \in 1..Len(lookups) : LookupEnded(k)) => results # "Searching..."

\* C14: every "Set as default" writes the selected path under download_loc
\* of the config document and keeps the document's other keys, whether or not
\* a node was highlighted before, and the next startup's parse_config loads
\* that path; the app keeps running.
C14_SetDefaultRoundTrip ==
    [][\A w \in WriterIds :
        write_default_loc_write(w) =>
            /\ ~crashed'
            /\ cfgFile'.exists
            /\ cfgFile'.other = writers[w].cfgs.other
            /\ parse_config(cfgFile').download_loc = writers[w].new_path.p]_vars

\* C15: a step that flips the switch makes the tree visible exactly when the
\* switch is on, and leaves selected_path and the download's location as
\* they were, in both directions.
C15_ToggleKeepsSelection ==
    [][switchValue' # switchValue =>
        /\ treeVisible' = switchValue'
        /\ selectedPath' = selectedPath
        /\ location' = location]_vars

\* The switch was flipped off and back on, with a highlighted node selected
\* and routed to the download: the tree is on screen again.
C15_Witness ==
    /\ nToggles = 2
    /\ switchValue
    /\ treeVisible
    /\ selectedPath.kind = "Path"
    /\ location = selectedPath

\* C17: the destination handed to Stream.download is the picker's
\* selected_path, never None.
C17_DestinationIsSelectedPath ==
    [][\A d \in DownloadIds :
        stream_download_begin(d) =>
            /\ downloads'[d].dest # NoPath
            /\ downloads'[d].dest.p = selectedPath.p]_vars

====
